---------------------------- MODULE Spec2Model ----------------------------
(***************************************************************************)
(* A model of the gpt-engineer command line entry point                    *)
(* (gpt_engineer/applications/cli/main.py): one run of main() from the     *)
(* validation of its flags to files.push, the helpers load_prompt and      *)
(* prompt_yesno, and the strategies main() hands to the agent.             *)
(***************************************************************************)
EXTENDS Integers, Sequences, FiniteSets, TLC

(***************************************************************************)
(* Bounds of the model.                                                    *)
(***************************************************************************)
\* how many times the command is run on the same project directory
MaxRuns == 2
\* the count of invalid yes/no answers saturates here (the loop itself goes on)
MaxInvalid == 2
\* the longest file, in lines, that Agent.improve is tried on
MaxLines == 3
\* how many times get_preprompts_path is called on the same directories
MaxCalls == 2

(***************************************************************************)
(* Python values.                                                          *)
(***************************************************************************)
\* Python's None, as returned by DiskMemory.get for a missing key
None == "<None>"

\* truthiness of an optional string: None and "" are falsy
Truthy(v) == v # None /\ v # ""

\* a Python value tagged with its type, so that a bool never equals a str
PyBool(b) == [tag |-> "bool", val |-> b]
PyStr(s) == [tag |-> "str", val |-> s]
PyEq(a, b) == a.tag = b.tag /\ a.val = b.val
\* x in [l1, l2, ...]
PyIn(x, list) == \E i \in 1..Len(list) : PyEq(x, list[i])

(***************************************************************************)
(* Strings typed by the user at the yes/no prompt, as character sequences. *)
(***************************************************************************)
IsSpace(c) == c \in {" ", "\t", "\n"}

UpperCase == <<"A", "B", "C", "D", "E", "F", "G", "H", "I", "J", "K", "L", "M",
               "N", "O", "P", "Q", "R", "S", "T", "U", "V", "W", "X", "Y", "Z">>
LowerCase == <<"a", "b", "c", "d", "e", "f", "g", "h", "i", "j", "k", "l", "m",
               "n", "o", "p", "q", "r", "s", "t", "u", "v", "w", "x", "y", "z">>

LowerChar(c) ==
    IF \E i \in DOMAIN UpperCase : UpperCase[i] = c
    THEN LowerCase[CHOOSE i \in DOMAIN UpperCase : UpperCase[i] = c]
    ELSE c

\* str.lower()
Lower(s) == [i \in 1..Len(s) |-> LowerChar(s[i])]

RECURSIVE LStrip(_)
LStrip(s) == IF s # <<>> /\ IsSpace(Head(s)) THEN LStrip(Tail(s)) ELSE s

RECURSIVE RStrip(_)
RStrip(s) ==
    IF s # <<>> /\ IsSpace(s[Len(s)]) THEN RStrip(SubSeq(s, 1, Len(s) - 1)) ELSE s

\* str.strip()
Strip(s) == RStrip(LStrip(s))

S_y == <<"y">>
S_yes == <<"y", "e", "s">>
S_n == <<"n">>
S_no == <<"n", "o">>

\* what the user may type at the yes/no prompt
Answers ==
    { S_y, S_yes, S_n, S_no,
      <<"Y">>, <<" ", "Y", "E", "S", " ">>, <<"N", "o", "\n">>, <<" ", "N">>,
      <<>>, <<" ">>, <<"y", "e">>, <<"o", "k">> }

(***************************************************************************)
(* File sets (FilesDict): a mapping from path to content.                  *)
(***************************************************************************)
Paths == {"main.py", "run.sh"}
Contents == {"v1", "v2"}
FileSets == UNION {[S -> Contents] : S \in SUBSET Paths}
EmptyFiles == [p \in {} |-> "v1"]

\* bool(files_dict): an empty mapping is falsy
FilesTruthy(f) == DOMAIN f # {}

\* FileStore.push: every file of the file set is written under the project
Push(proj, f) ==
    [p \in DOMAIN proj \cup DOMAIN f |-> IF p \in DOMAIN f THEN f[p] ELSE proj[p]]

\* FileSelector.ask_for_files: the selected files of the project, as on disk
AskForFiles(proj, sel) == [p \in sel |-> proj[p]]

(***************************************************************************)
(* DiskMemory: a key-value directory.                                      *)
(***************************************************************************)
PromptTexts == {"", "make a game", "fix the bug"}
Memories == UNION {[K -> PromptTexts] : K \in SUBSET {"prompt"}}

\* DiskMemory.get(key): the default is None
MemGet(mem, key) == IF key \in DOMAIN mem THEN mem[key] ELSE None

\* DiskMemory.__setitem__
MemSet(mem, key, val) ==
    [k \in DOMAIN mem \cup {key} |-> IF k = key THEN val ELSE mem[k]]

VARIABLES
    \* command line flags of the current run
    improve_mode, lite_mode, clarify_mode, self_heal_mode,
    \* the disk: DiskMemory(path) and the project's files
    input_repo, project,
    \* position in main() and its locals
    pc, prompt, agent, files_dict_before, files_dict, improved, answer,
    \* what the run did, in order; its exit code; arguments of the last calls
    trace, exit_code, staged, pushed,
    \* the yes/no prompt: last raw input, count of invalid inputs (saturating)
    yn_input, yn_invalid,
    \* runs of the command so far, and what the previous run left
    runs, prev_prompt, prev_asked, project0, input_repo0,
    \* the self-heal loop: its state, retry count, current and first file set,
    \* model calls made, exit codes of the executions, the file set returned
    sh_state, sh_retries, sh_files, sh_base, sh_calls, sh_exits, sh_returned,
    \* clarify generation: position, rounds, questions relayed to the human,
    \* conversation turns, last and first model reply, round of the human's
    \* empty answer (0: none), generation calls
    cl_pc, cl_rounds, cl_asked, cl_turns, cl_reply, cl_first, cl_empty, cl_gen,
    \* Agent.improve: position, base file set, model response, result, hunks
    \* that could not be applied
    im_pc, im_base, im_response, im_result, im_errors,
    \* get_preprompts_path: the platform's line separator, the default
    \* preprompts directory, whether <project>/preprompts exists and what it
    \* holds, both as they were before the last call, the flags of the calls
    \* made, the path last returned
    pp_linesep, pp_default, pp_exists, pp_custom, pp_exists0, pp_custom0,
    pp_flags, pp_returned,
    \* compare: position, the two file sets, what was printed
    cmp_pc, cmp_f1, cmp_f2, cmp_out

flagVars == <<improve_mode, lite_mode, clarify_mode, self_heal_mode>>
diskVars == <<input_repo, project>>
localVars == <<prompt, agent, files_dict_before, files_dict, improved, answer>>
obsVars == <<trace, exit_code, staged, pushed>>
ynVars == <<yn_input, yn_invalid>>
runVars == <<runs, prev_prompt, prev_asked, project0, input_repo0>>
mainVars == <<flagVars, diskVars, pc, localVars, obsVars, ynVars, runVars>>
healVars == <<sh_state, sh_retries, sh_files, sh_base, sh_calls, sh_exits, sh_returned>>
clarVars == <<cl_pc, cl_rounds, cl_asked, cl_turns, cl_reply, cl_first, cl_empty, cl_gen>>
impVars == <<im_pc, im_base, im_response, im_result, im_errors>>
ppVars == <<pp_linesep, pp_default, pp_exists, pp_custom, pp_exists0, pp_custom0,
            pp_flags, pp_returned>>
cmpVars == <<cmp_pc, cmp_f1, cmp_f2, cmp_out>>
vars == <<mainVars, healVars, clarVars, impVars, ppVars, cmpVars>>

NoAgent == [code_gen_fn |-> None, improve_fn |-> None, process_code_fn |-> None]

\* the locals of main() before it has assigned them
FreshLocals ==
    /\ prompt = None
    /\ agent = NoAgent
    /\ files_dict_before = EmptyFiles
    /\ files_dict = EmptyFiles
    /\ improved = EmptyFiles
    /\ answer = PyBool(FALSE)
    /\ trace = <<>>
    /\ exit_code = 0
    /\ staged = EmptyFiles
    /\ pushed = EmptyFiles
    /\ yn_input = <<>>
    /\ yn_invalid = 0

\* the self-heal loop is not running
HealIdle ==
    /\ sh_state = "IDLE"
    /\ sh_retries = 0
    /\ sh_files = EmptyFiles
    /\ sh_base = EmptyFiles
    /\ sh_calls = 0
    /\ sh_exits = <<>>
    /\ sh_returned = None

\* clarify generation is not running
ClarIdle ==
    /\ cl_pc = "idle"
    /\ cl_rounds = 0
    /\ cl_asked = 0
    /\ cl_turns = 0
    /\ cl_reply = <<>>
    /\ cl_first = <<>>
    /\ cl_empty = 0
    /\ cl_gen = 0

\* Agent.improve is not running
ImpIdle ==
    /\ im_pc = "idle"
    /\ im_base = EmptyFiles
    /\ im_response = <<>>
    /\ im_result = EmptyFiles
    /\ im_errors = 0

\* get_preprompts_path is not running
PpIdle ==
    /\ pp_linesep = <<"\n">>
    /\ pp_default = EmptyFiles
    /\ pp_exists = FALSE
    /\ pp_custom = EmptyFiles
    /\ pp_exists0 = FALSE
    /\ pp_custom0 = EmptyFiles
    /\ pp_flags = <<>>
    /\ pp_returned = None

\* compare is not running
CmpIdle ==
    /\ cmp_pc = "idle"
    /\ cmp_f1 = EmptyFiles
    /\ cmp_f2 = EmptyFiles
    /\ cmp_out = <<>>

\* main() is not running
MainIdle ==
    /\ improve_mode = FALSE
    /\ lite_mode = FALSE
    /\ clarify_mode = FALSE
    /\ self_heal_mode = FALSE
    /\ input_repo = EmptyFiles
    /\ project = EmptyFiles
    /\ pc = "idle"
    /\ FreshLocals
    /\ runs = 0
    /\ prev_prompt = None
    /\ prev_asked = FALSE
    /\ project0 = EmptyFiles
    /\ input_repo0 = EmptyFiles

Init ==
    /\ HealIdle /\ ClarIdle /\ ImpIdle /\ PpIdle /\ CmpIdle
    /\ improve_mode \in BOOLEAN
    /\ lite_mode \in BOOLEAN
    /\ clarify_mode \in BOOLEAN
    /\ self_heal_mode \in BOOLEAN
    /\ input_repo \in Memories
    /\ project \in FileSets
    /\ pc = "start"
    /\ FreshLocals
    /\ runs = 1
    /\ prev_prompt = None
    /\ prev_asked = FALSE
    /\ project0 = project
    /\ input_repo0 = input_repo

(***************************************************************************)
(* main(): validation of the arguments, then the environment and the       *)
(* model client.                                                           *)
(***************************************************************************)
\* the flag combinations main() rejects
InvalidArgsWeak(imp, cla, lit) == imp /\ cla /\ lit
InvalidArgs(imp, cla, lit) == imp /\ (cla \/ lit)

MainValidate ==
    /\ UNCHANGED <<healVars, clarVars, impVars, ppVars, cmpVars>>
    /\ pc = "start"
    /\ IF InvalidArgs(improve_mode, clarify_mode, lite_mode)
       THEN /\ trace' = Append(trace, "echo_error")
            /\ exit_code' = 1
            /\ pc' = "exit"
       ELSE /\ trace' = trace \o <<"logging", "load_env", "ai">>
            /\ exit_code' = exit_code
            /\ pc' = "load_prompt"
    /\ UNCHANGED <<flagVars, diskVars, localVars, staged, pushed, ynVars, runVars>>

(***************************************************************************)
(* load_prompt(input_repo, improve_mode)                                   *)
(***************************************************************************)
\* whether load_prompt returns the stored prompt without asking
HasPromptAlways(mem) == "prompt" \in DOMAIN mem
HasPrompt(mem) == Truthy(MemGet(mem, "prompt"))

\* the question load_prompt asks
Question(imp) == IF ~imp THEN "ask_generate" ELSE "ask_improve"

\* how many times an event occurs in a trace
Count(tr, e) == Cardinality({i \in DOMAIN tr : tr[i] = e})

\* whether the run asked the user for a prompt
Asked(tr) == Count(tr, "ask_generate") + Count(tr, "ask_improve") > 0

MainLoadPrompt ==
    /\ UNCHANGED <<healVars, clarVars, impVars, ppVars, cmpVars>>
    /\ pc = "load_prompt"
    /\ IF HasPrompt(input_repo)
       THEN /\ prompt' = MemGet(input_repo, "prompt")
            /\ input_repo' = input_repo
            /\ trace' = Append(trace, "load_prompt")
       ELSE \E typed \in PromptTexts :
            /\ input_repo' = MemSet(input_repo, "prompt", typed)
            /\ prompt' = MemGet(input_repo', "prompt")
            /\ trace' = trace \o <<"load_prompt", Question(improve_mode), "prompt_saved">>
    /\ pc' = "configure"
    /\ UNCHANGED <<flagVars, project, agent, files_dict_before, files_dict,
                   improved, answer, exit_code, staged, pushed, ynVars, runVars>>

(***************************************************************************)
(* main(): the strategies, the memory and the agent                        *)
(***************************************************************************)
CodeGenFnLiteFirst(cla, lit) ==
    IF lit THEN "lite_gen" ELSE IF cla THEN "clarified_gen" ELSE "gen_code"
CodeGenFn(cla, lit) ==
    IF cla THEN "clarified_gen" ELSE IF lit THEN "lite_gen" ELSE "gen_code"

ExecutionFn(sh) == IF sh THEN "self_heal" ELSE "execute_entrypoint"

\* what main() does between the choice of the strategies and the agent step:
\* the preprompts, the memory with its logs archived, the agent
ConfigureStepsNoArchive == <<"preprompts", "agent">>
ConfigureSteps == <<"preprompts", "archive_logs", "agent">>

MainConfigure ==
    /\ UNCHANGED <<healVars, clarVars, impVars, ppVars, cmpVars>>
    /\ pc = "configure"
    /\ agent' = [code_gen_fn |-> CodeGenFn(clarify_mode, lite_mode),
                 improve_fn |-> "improve_fn",
                 process_code_fn |-> ExecutionFn(self_heal_mode)]
    /\ trace' = trace \o ConfigureSteps
    /\ pc' = IF improve_mode THEN "improve" ELSE "init"
    /\ UNCHANGED <<flagVars, diskVars, prompt, files_dict_before, files_dict,
                   improved, answer, exit_code, staged, pushed, ynVars, runVars>>

(***************************************************************************)
(* main(): generate mode                                                   *)
(***************************************************************************)
MainInit ==
    /\ UNCHANGED <<healVars, clarVars, impVars, ppVars, cmpVars>>
    /\ pc = "init"
    /\ \E f \in FileSets : files_dict' = f
    /\ trace' = trace \o <<"agent_init", "human_review">>
    /\ pc' = "stage"
    /\ UNCHANGED <<flagVars, diskVars, prompt, agent, files_dict_before,
                   improved, answer, exit_code, staged, pushed, ynVars, runVars>>

(***************************************************************************)
(* main(): improve mode                                                    *)
(***************************************************************************)
\* the test that makes main() print "No changes applied"
NoChangesOnlyEmpty(before, after) == ~FilesTruthy(after)
NoChanges(before, after) == ~FilesTruthy(after) \/ before = after

MainImprove ==
    /\ UNCHANGED <<healVars, clarVars, impVars, ppVars, cmpVars>>
    /\ pc = "improve"
    /\ \E sel \in SUBSET DOMAIN project, f \in FileSets :
        /\ files_dict_before' = AskForFiles(project, sel)
        /\ files_dict' = f
        /\ improved' = f
        /\ IF NoChanges(files_dict_before', f)
           THEN /\ trace' = trace \o <<"ask_for_files", "handle_improve_mode", "no_changes">>
                /\ pc' = "stage"
           ELSE /\ trace' = trace \o <<"ask_for_files", "handle_improve_mode",
                                      "changes_to_be_made", "compare", "confirm_question">>
                /\ pc' = "yesno"
    /\ UNCHANGED <<flagVars, diskVars, prompt, agent, answer, exit_code,
                   staged, pushed, ynVars, runVars>>

(***************************************************************************)
(* prompt_yesno()                                                          *)
(***************************************************************************)
\* the loop condition: the value the walrus binds to answer
YesNoInvalidRaw(typed) == ~PyIn(PyStr(typed),
                                <<PyStr(S_y), PyStr(S_yes), PyStr(S_n), PyStr(S_no)>>)
YesNoInvalid(typed) == ~PyIn(PyStr(Lower(Strip(typed))),
                             <<PyStr(S_y), PyStr(S_yes), PyStr(S_n), PyStr(S_no)>>)

\* return answer in ["y", "yes"]
YesNoResultTrue(ans) == TRUE
YesNoResult(ans) == PyIn(ans, <<PyStr(S_y), PyStr(S_yes)>>)

SubSeqSet(tr) == {tr[i] : i \in DOMAIN tr}

Min(a, b) == IF a < b THEN a ELSE b

\* one input() of prompt_yesno, and main()'s use of its result when it returns
MainYesNo ==
    /\ UNCHANGED <<healVars, clarVars, impVars, ppVars, cmpVars>>
    /\ pc = "yesno"
    /\ \E typed \in Answers :
        /\ yn_input' = typed
        /\ answer' = PyBool(YesNoInvalid(typed))
        /\ IF answer'.val
           THEN /\ yn_invalid' = Min(yn_invalid + 1, MaxInvalid)
                /\ pc' = "yesno"
                /\ files_dict' = files_dict
           ELSE /\ yn_invalid' = yn_invalid
                /\ pc' = "stage"
                /\ files_dict' = IF ~YesNoResult(answer')
                                 THEN files_dict_before
                                 ELSE files_dict
    /\ UNCHANGED <<flagVars, diskVars, prompt, agent, files_dict_before, improved,
                   obsVars, runVars>>

(***************************************************************************)
(* main(): staging and writing the files                                   *)
(***************************************************************************)
MainPush ==
    /\ UNCHANGED <<healVars, clarVars, impVars, ppVars, cmpVars>>
    /\ pc = "stage"
    /\ staged' = files_dict
    /\ pushed' = files_dict
    /\ project' = Push(project, files_dict)
    /\ trace' = trace \o <<"stage", "push", "usage">>
    /\ pc' = "done"
    /\ UNCHANGED <<flagVars, input_repo, localVars, exit_code, ynVars, runVars>>

(***************************************************************************)
(* The command is run again on the same project directory.                 *)
(***************************************************************************)
Rerun ==
    /\ UNCHANGED <<healVars, clarVars, impVars, ppVars, cmpVars>>
    /\ pc \in {"done", "exit"}
    /\ runs < MaxRuns
    /\ runs' = runs + 1
    /\ prev_prompt' = prompt
    /\ prev_asked' = Asked(trace)
    /\ project0' = project
    /\ input_repo0' = input_repo
    /\ improve_mode' \in BOOLEAN
    /\ lite_mode' \in BOOLEAN
    /\ clarify_mode' \in BOOLEAN
    /\ self_heal_mode' \in BOOLEAN
    /\ pc' = "start"
    /\ prompt' = None
    /\ agent' = NoAgent
    /\ files_dict_before' = EmptyFiles
    /\ files_dict' = EmptyFiles
    /\ improved' = EmptyFiles
    /\ answer' = PyBool(FALSE)
    /\ trace' = <<>>
    /\ exit_code' = 0
    /\ staged' = EmptyFiles
    /\ pushed' = EmptyFiles
    /\ yn_input' = <<>>
    /\ yn_invalid' = 0
    /\ UNCHANGED diskVars

Next ==
    \/ MainValidate
    \/ MainLoadPrompt
    \/ MainConfigure
    \/ MainInit
    \/ MainImprove
    \/ MainYesNo
    \/ MainPush
    \/ Rerun

Spec == Init /\ [][Next]_vars

\* main() is one sequential process: it goes on while it has a step to take, and
\* the user answers every input() it blocks on
FairSpec == Spec /\ WF_vars(Next)

(***************************************************************************)
(* Properties                                                              *)
(***************************************************************************)
\* the answer as prompt_yesno normalises it
Normal(typed) == Lower(Strip(typed))
SaidYes == Normal(yn_input) \in {S_y, S_yes}
SaidNo == Normal(yn_input) \in {S_n, S_no}
Confirming == "confirm_question" \in SubSeqSet(trace)
AfterLoadPrompt == pc \in {"configure", "init", "improve", "yesno", "stage", "done"}
AfterConfigure == pc \in {"init", "improve", "yesno", "stage", "done"}

\* C1: in improve mode, when the improved file set is non-empty and differs from
\* the selected one and the user answers y or yes, the file set staged and
\* pushed is the improved one.
C1_YesAppliesImproved ==
    (pc = "done" /\ improve_mode /\ FilesTruthy(improved)
        /\ improved # files_dict_before /\ SaidYes)
    => (staged = improved /\ pushed = improved)

\* C2: in improve mode, when the user answers n or no to the confirmation
\* question, the file set pushed is files_dict_before and the project's files
\* are what they were before the run.
C2_NoKeepsBefore ==
    (pc = "done" /\ improve_mode /\ Confirming /\ SaidNo)
    => (pushed = files_dict_before /\ staged = files_dict_before
        /\ project = project0)

C2_Witness ==
    /\ pc = "done" /\ improve_mode /\ Confirming
    /\ yn_input = <<"N", "o", "\n">>
    /\ FilesTruthy(improved) /\ improved # files_dict_before
    /\ pushed = files_dict_before

\* C3: with improve_mode together with clarify_mode or lite_mode, main() exits
\* with code 1 having done nothing but print the error: nothing is loaded,
\* asked, archived, run or pushed, and the disk is as it was.
C3_InvalidFlagsExit ==
    (improve_mode /\ (clarify_mode \/ lite_mode))
    => /\ pc \in {"start", "exit"}
       /\ pc = "start" => trace = <<>>
       /\ pc = "exit" => exit_code = 1 /\ trace = <<"echo_error">>
       /\ input_repo = input_repo0 /\ project = project0
       /\ prompt = None /\ agent = NoAgent
       /\ pushed = EmptyFiles /\ staged = EmptyFiles

C3_Witness ==
    pc = "exit" /\ improve_mode /\ lite_mode /\ ~clarify_mode /\ exit_code = 1

C5_Strategies ==
    /\ AfterConfigure =>
        /\ agent.code_gen_fn = (IF clarify_mode THEN "clarified_gen"
                                 ELSE IF lite_mode THEN "lite_gen" ELSE "gen_code")
        /\ agent.process_code_fn = (IF self_heal_mode THEN "self_heal"
                                     ELSE "execute_entrypoint")
    /\ ~AfterConfigure => agent = NoAgent

C5_Witness ==
    /\ pc = "done" /\ clarify_mode /\ lite_mode /\ self_heal_mode
    /\ agent.code_gen_fn = "clarified_gen"
    /\ agent.process_code_fn = "self_heal"


\* C9 as stated: every retry loop is bounded, prompt_yesno's re-ask loop
\* included: whatever the user answers, prompt_yesno eventually stops asking
\* and returns.
C9_YesNoReturns == (pc = "yesno") ~> (pc # "yesno")

\* C9 as amended: prompt_yesno asks again after every answer that does not
\* normalise to y, yes, n or no, and returns only on one that does; it keeps no
\* count of the invalid answers and has no maximum.
C9_YesNoAsksUntilValid ==
    /\ (pc = "yesno" /\ yn_invalid > 0) => ~(SaidYes \/ SaidNo)
    /\ (pc \in {"stage", "done"} /\ Confirming) => (SaidYes \/ SaidNo)
    /\ (pc \in {"stage", "done"} /\ Confirming) => answer = PyBool(FALSE)
    /\ (pc = "yesno" /\ yn_invalid > 0) => answer = PyBool(TRUE)

C9_Witness ==
    /\ pc = "yesno" /\ yn_invalid = MaxInvalid
    /\ yn_input = <<"o", "k">>

\* C10: load_prompt returns a non-empty stored prompt without asking or writing;
\* otherwise it asks once (the generate question, or the improve question in
\* improve mode), stores the answer under "prompt" and returns the stored value;
\* so a later load_prompt on the same memory after a non-empty answer returns
\* the same prompt without asking.
C10_LoadPrompt ==
    AfterLoadPrompt =>
        /\ IF "prompt" \in DOMAIN input_repo0 /\ input_repo0["prompt"] # ""
           THEN /\ prompt = input_repo0["prompt"]
                /\ ~Asked(trace)
                /\ Count(trace, "prompt_saved") = 0
                /\ input_repo = input_repo0
           ELSE /\ Count(trace, IF improve_mode THEN "ask_improve" ELSE "ask_generate") = 1
                /\ Count(trace, IF improve_mode THEN "ask_generate" ELSE "ask_improve") = 0
                /\ "prompt" \in DOMAIN input_repo
                /\ prompt = input_repo["prompt"]
        /\ (runs > 1 /\ prev_prompt # None /\ prev_prompt # "")
            => (prompt = prev_prompt /\ ~Asked(trace))

C10_Witness ==
    /\ runs = 2 /\ pc = "configure"
    /\ prev_asked /\ prev_prompt = "fix the bug"
    /\ prompt = prev_prompt /\ ~Asked(trace)

(***************************************************************************)
(* The self-heal loop (the execution strategy self_heal): the state        *)
(* machine RUN, RETRY, SUCCESS, FAILED.                                    *)
(***************************************************************************)
\* the retry limit of the loop
MaxRetries == 3

\* exit codes an execution of the entrypoint may end with
ExitCodes == {0, 1, 2}

\* file sets the loop works on: each holds the entrypoint
Entrypoint == "run.sh"
HealFileSets == {f \in FileSets : Entrypoint \in DOMAIN f}

\* whether a failed execution is followed by another fix request
CanRetryInclusive(retries) == retries <= MaxRetries
CanRetry(retries) == retries < MaxRetries

\* a diff-based fix never removes a file
Fixes(f) == {g \in HealFileSets : DOMAIN f \subseteq DOMAIN g}

InitSelfHeal ==
    /\ MainIdle /\ ClarIdle /\ ImpIdle /\ PpIdle /\ CmpIdle
    /\ sh_state = "RUN"
    /\ sh_retries = 0
    /\ sh_base \in HealFileSets
    /\ sh_files = sh_base
    /\ sh_calls = 0
    /\ sh_exits = <<>>
    /\ sh_returned = None

\* RUN: execute the entrypoint; zero is SUCCESS, nonzero is RETRY while the
\* retry count is below the limit and FAILED otherwise
ShRun ==
    /\ sh_state = "RUN"
    /\ \E code \in ExitCodes :
        /\ sh_exits' = Append(sh_exits, code)
        /\ IF code = 0
           THEN sh_state' = "SUCCESS" /\ sh_returned' = sh_files
           ELSE IF CanRetry(sh_retries)
                THEN sh_state' = "RETRY" /\ sh_returned' = sh_returned
                ELSE sh_state' = "FAILED" /\ sh_returned' = sh_files
    /\ UNCHANGED <<sh_retries, sh_files, sh_base, sh_calls>>
    /\ UNCHANGED <<mainVars, clarVars, impVars, ppVars, cmpVars>>

\* RETRY: ask the model for a fix of the current file set, apply it, count the
\* retry, run again
ShRetry ==
    /\ sh_state = "RETRY"
    /\ sh_calls' = sh_calls + 1
    /\ sh_files' \in Fixes(sh_files)
    /\ sh_retries' = sh_retries + 1
    /\ sh_state' = "RUN"
    /\ UNCHANGED <<sh_base, sh_exits, sh_returned>>
    /\ UNCHANGED <<mainVars, clarVars, impVars, ppVars, cmpVars>>

NextSelfHeal ==
    \/ ShRun
    \/ ShRetry

SpecSelfHeal == InitSelfHeal /\ [][NextSelfHeal]_vars

AllFailed(exits) == \A i \in DOMAIN exits : exits[i] # 0

\* C6: the self-heal loop makes at most max_retries fix requests and executes
\* at most max_retries + 1 times; when every execution exits nonzero it ends in
\* FAILED after max_retries retries and returns the last file set; when the
\* first execution exits zero it ends in SUCCESS, returning the file set it was
\* given, with no model call.
C6_SelfHealBounded ==
    /\ sh_calls <= MaxRetries /\ sh_retries = sh_calls
    /\ Len(sh_exits) <= MaxRetries + 1
    /\ sh_state \in {"RUN", "RETRY", "SUCCESS", "FAILED"}
    /\ sh_state = "RUN" => Len(sh_exits) = sh_calls
    /\ sh_state = "RETRY" => Len(sh_exits) = sh_calls + 1 /\ sh_calls < MaxRetries
    /\ (AllFailed(sh_exits) /\ Len(sh_exits) = MaxRetries + 1) => sh_state = "FAILED"
    /\ sh_state = "FAILED" =>
        /\ AllFailed(sh_exits) /\ sh_calls = MaxRetries
        /\ sh_returned = sh_files /\ sh_returned \in HealFileSets
    /\ sh_state = "SUCCESS" =>
        /\ sh_exits[Len(sh_exits)] = 0
        /\ sh_returned = sh_files /\ sh_returned \in HealFileSets
    /\ sh_exits = <<0>> =>
        /\ sh_state = "SUCCESS" /\ sh_calls = 0 /\ sh_returned = sh_base
    /\ sh_state \in {"RUN", "RETRY"} => sh_returned = None

C6_Witness ==
    /\ sh_state = "FAILED" /\ sh_exits = <<1, 2, 1, 1>> /\ sh_calls = MaxRetries
    /\ sh_returned # sh_base

(***************************************************************************)
(* Clarify generation (the generation strategy clarified_gen): a bounded   *)
(* loop of clarification rounds, then plain generation.                    *)
(***************************************************************************)
\* the hard cap on clarification rounds
ClarifyCap == 10

\* the sentinel phrase, in lower case
S_nothing == <<"n", "o", "t", "h", "i", "n", "g", " ", "t", "o", " ",
               "c", "l", "a", "r", "i", "f", "y">>

\* replies of the model to "does the prompt need clarification?"
Replies ==
    { S_nothing,
      <<"N", "o", "t", "h", "i", "n", "g", " ", "t", "o", " ",
        "c", "l", "a", "r", "i", "f", "y">>,
      <<"N", "O", "T", "H", "I", "N", "G", " ", "T", "O", " ",
        "C", "L", "A", "R", "I", "F", "Y", ".">>,
      <<"W", "h", "i", "c", "h", " ", "O", "S", "?">>,
      <<"n", "o", "t", "h", "i", "n", "g", "?">> }

\* answers of the human operator to a clarifying question
HumanAnswers == {"", "linux", "any"}

\* whether sub occurs in s as a run of consecutive characters
Contains(s, sub) ==
    \E i \in 0..(Len(s) - Len(sub)) : SubSeq(s, i + 1, i + Len(sub)) = sub

\* the case-insensitive match of the reply on the sentinel phrase
IsSentinelCaseSensitive(reply) == Contains(reply, S_nothing)
IsSentinel(reply) == Contains(Lower(reply), S_nothing)

\* whether the loop goes round again
MoreRounds(rounds) == rounds < ClarifyCap

InitClarify ==
    /\ MainIdle /\ HealIdle /\ ImpIdle /\ PpIdle /\ CmpIdle
    /\ cl_pc = "ask_model"
    /\ cl_rounds = 0
    /\ cl_asked = 0
    /\ cl_turns = 1
    /\ cl_reply = <<>>
    /\ cl_first = <<>>
    /\ cl_empty = 0
    /\ cl_gen = 0

\* a round begins: the model is asked whether the prompt needs clarification
ClAskModel ==
    /\ cl_pc = "ask_model"
    /\ cl_rounds' = cl_rounds + 1
    /\ \E reply \in Replies :
        /\ cl_reply' = reply
        /\ cl_first' = IF cl_rounds = 0 THEN reply ELSE cl_first
        /\ cl_pc' = IF IsSentinel(reply) THEN "generate" ELSE "ask_human"
    /\ cl_turns' = cl_turns + 1
    /\ UNCHANGED <<cl_asked, cl_empty, cl_gen>>
    /\ UNCHANGED <<mainVars, healVars, impVars, ppVars, cmpVars>>

\* the clarifying question is relayed to the human; an empty answer ends the
\* loop, any other answer joins the conversation
ClAskHuman ==
    /\ cl_pc = "ask_human"
    /\ cl_asked' = cl_asked + 1
    /\ \E typed \in HumanAnswers :
        IF typed = ""
        THEN /\ cl_empty' = cl_rounds
             /\ cl_turns' = cl_turns
             /\ cl_pc' = "generate"
        ELSE /\ cl_empty' = cl_empty
             /\ cl_turns' = cl_turns + 1
             /\ cl_pc' = IF MoreRounds(cl_rounds) THEN "ask_model" ELSE "generate"
    /\ UNCHANGED <<cl_rounds, cl_reply, cl_first, cl_gen>>
    /\ UNCHANGED <<mainVars, healVars, impVars, ppVars, cmpVars>>

\* plain generation, with the conversation so far as context
ClGenerate ==
    /\ cl_pc = "generate"
    /\ cl_gen' = cl_gen + 1
    /\ cl_turns' = cl_turns + 1
    /\ cl_pc' = "done"
    /\ UNCHANGED <<cl_rounds, cl_asked, cl_reply, cl_first, cl_empty>>
    /\ UNCHANGED <<mainVars, healVars, impVars, ppVars, cmpVars>>

NextClarify ==
    \/ ClAskModel
    \/ ClAskHuman
    \/ ClGenerate

SpecClarify == InitClarify /\ [][NextClarify]_vars

\* the first reply is the sentinel, whatever its letter case
FirstIsSentinel ==
    \E r \in Replies :
        /\ cl_first = r
        /\ Lower(r) \in {S_nothing, S_nothing \o <<".">>}

\* C7: when the model's first reply is the "nothing to clarify" sentinel in any
\* letter case, there is exactly one clarification round, the human is asked
\* nothing, and generation follows; the loop never goes beyond the cap of
\* rounds, and a round in which the human answers nothing is the last one.
C7_ClarifyLoop ==
    /\ cl_rounds <= ClarifyCap
    /\ cl_asked <= cl_rounds
    /\ cl_gen = (IF cl_pc = "done" THEN 1 ELSE 0)
    /\ (FirstIsSentinel /\ cl_rounds >= 1) =>
        /\ cl_rounds = 1 /\ cl_asked = 0
        /\ cl_pc \in {"generate", "done"}
    /\ cl_empty # 0 =>
        /\ cl_rounds = cl_empty /\ cl_asked = cl_empty
        /\ cl_pc \in {"generate", "done"}

C7_Witness ==
    /\ cl_pc = "done" /\ cl_gen = 1 /\ cl_rounds = 1 /\ cl_asked = 0
    /\ cl_first = <<"N", "o", "t", "h", "i", "n", "g", " ", "t", "o", " ",
                    "c", "l", "a", "r", "i", "f", "y">>

(***************************************************************************)
(* Agent.improve: the improve strategy (the model's response parsed into   *)
(* edit hunks and merged into the base file set), then the execution       *)
(* strategy.  A file is a sequence of lines here.                          *)
(***************************************************************************)
LineTexts == {"a", "b", "c"}
FileLines == UNION {[1..n -> LineTexts] : n \in 1..MaxLines}

\* base file sets: main.py and the entrypoint
ImBases ==
    {[p \in {"main.py", "run.sh"} |-> IF p = "main.py" THEN m ELSE r] :
        m \in FileLines, r \in {<<"a">>, <<"b", "c">>}}

\* one operation of a hunk: a context line, a removal or an addition
Op(kind, text) == [kind |-> kind, text |-> text]
NoLine == "<none>"
CtxOps(text) == IF text = NoLine THEN <<>> ELSE <<Op(" ", text)>>

\* a hunk that replaces the line old by the line new, between optional context
ReplaceHunk(path, lead, old, new, trail) ==
    [path |-> path,
     ops |-> CtxOps(lead) \o <<Op("-", old), Op("+", new)>> \o CtxOps(trail)]

ReplaceHunks ==
    {ReplaceHunk(path, lead, old, new, trail) :
        path \in {"main.py", "run.sh"}, lead \in LineTexts \cup {NoLine},
        old \in LineTexts, new \in LineTexts, trail \in LineTexts \cup {NoLine}}

\* hunks of other shapes: additions only (to a new file, to an existing one),
\* and a removal in a file the base does not hold
OtherHunks ==
    { [path |-> "new.py", ops |-> <<Op("+", "a"), Op("+", "b")>>],
      [path |-> "run.sh", ops |-> <<Op("+", "c")>>],
      [path |-> "gone.py", ops |-> <<Op("-", "a"), Op("+", "b")>>] }

\* responses of the model, parsed: no hunk, one hunk, or two bare replacements
\* in main.py
ImResponses ==
    {<<>>}
    \cup {<<h>> : h \in ReplaceHunks \cup OtherHunks}
    \cup {<<ReplaceHunk("main.py", NoLine, o1, n1, NoLine),
            ReplaceHunk("main.py", NoLine, o2, n2, NoLine)>> :
            o1 \in LineTexts, n1 \in LineTexts, o2 \in LineTexts, n2 \in LineTexts}

IsPureAddition(h) == \A i \in DOMAIN h.ops : h.ops[i].kind = "+"

\* the anchor of a hunk: its first context or removal line
AnchorText(h) ==
    h.ops[CHOOSE i \in DOMAIN h.ops :
            /\ h.ops[i].kind # "+"
            /\ \A j \in 1..(i - 1) : h.ops[j].kind = "+"].text

\* the anchor's place in the file: its occurrences after position from
Hits(lines, from, text) == {i \in (from + 1)..Len(lines) : lines[i] = text}
LocateLast(lines, from, text) ==
    IF Hits(lines, from, text) = {} THEN 0
    ELSE CHOOSE i \in Hits(lines, from, text) : \A j \in Hits(lines, from, text) : j <= i
\* forward search: the first occurrence after from, 0 when there is none
Locate(lines, from, text) ==
    IF Hits(lines, from, text) = {} THEN 0
    ELSE CHOOSE i \in Hits(lines, from, text) : \A j \in Hits(lines, from, text) : i <= j

\* the operations applied in order at the located place: out is the file
\* written so far, rest the lines of the file not yet passed
RECURSIVE ApplyOps(_, _, _)
ApplyOps(ops, rest, out) ==
    IF ops = <<>> THEN [ok |-> TRUE, out |-> out, rest |-> rest]
    ELSE LET op == Head(ops) IN
        CASE op.kind = "+" -> ApplyOps(Tail(ops), rest, Append(out, op.text))
          [] op.kind = "-" ->
                IF rest # <<>> /\ Head(rest) = op.text
                THEN ApplyOps(Tail(ops), Tail(rest), out)
                ELSE [ok |-> FALSE, out |-> out, rest |-> rest]
          [] OTHER ->
                \* a context line is passed over, matching or not
                IF rest # <<>>
                THEN ApplyOps(Tail(ops), Tail(rest), Append(out, Head(rest)))
                ELSE ApplyOps(Tail(ops), rest, out)

\* the end position of the last hunk applied to a file (0: none yet)
EndPos(ends, path) == IF path \in DOMAIN ends THEN ends[path] ELSE 0

SetFile(f, path, val) ==
    [q \in DOMAIN f \cup {path} |-> IF q = path THEN val ELSE f[q]]

\* one hunk merged into the files: st holds the files, the end positions and
\* the count of hunks that could not be applied
MergeHunk(st, h) ==
    LET failed == [st EXCEPT !.errors = @ + 1] IN
    IF h.path \notin DOMAIN st.files
    THEN IF IsPureAddition(h)
         THEN LET r == ApplyOps(h.ops, <<>>, <<>>) IN
              [st EXCEPT !.files = SetFile(@, h.path, r.out),
                         !.ends = SetFile(@, h.path, Len(r.out))]
         ELSE failed
    ELSE LET lines == st.files[h.path] IN
         IF IsPureAddition(h)
         THEN \* the place of additions with no anchor is left open: the end
              LET r == ApplyOps(h.ops, <<>>, lines) IN
              [st EXCEPT !.files = SetFile(@, h.path, r.out),
                         !.ends = SetFile(@, h.path, Len(r.out))]
         ELSE LET at == Locate(lines, EndPos(st.ends, h.path), AnchorText(h)) IN
              IF at = 0 THEN failed
              ELSE LET r == ApplyOps(h.ops, SubSeq(lines, at, Len(lines)),
                                     SubSeq(lines, 1, at - 1)) IN
                   IF ~r.ok THEN failed
                   ELSE [st EXCEPT !.files = SetFile(@, h.path, r.out \o r.rest),
                                   !.ends = SetFile(@, h.path, Len(r.out))]

\* merge(base, edits): the hunks applied in order of appearance
RECURSIVE MergeFrom(_, _)
MergeFrom(st, hunks) ==
    IF hunks = <<>> THEN st ELSE MergeFrom(MergeHunk(st, Head(hunks)), Tail(hunks))

Merge(base, hunks) ==
    MergeFrom([files |-> base, ends |-> EmptyFiles, errors |-> 0], hunks)

InitImprove ==
    /\ MainIdle /\ HealIdle /\ ClarIdle /\ PpIdle /\ CmpIdle
    /\ im_pc = "improve"
    /\ im_base \in ImBases
    /\ im_response \in ImResponses
    /\ im_result = EmptyFiles
    /\ im_errors = 0

\* the improve strategy: zero hunks give the base unchanged
ImImprove ==
    /\ im_pc = "improve"
    /\ LET m == Merge(im_base, im_response) IN
        /\ im_result' = m.files
        /\ im_errors' = m.errors
    /\ im_pc' = "process"
    /\ UNCHANGED <<im_base, im_response>>
    /\ UNCHANGED <<mainVars, healVars, clarVars, ppVars, cmpVars>>

\* the execution strategy: the run may leave an output artifact beside the
\* files it was given
ImProcess ==
    /\ im_pc = "process"
    /\ \E made \in BOOLEAN :
        im_result' = IF made THEN SetFile(im_result, "output.txt", <<"c">>)
                     ELSE im_result
    /\ im_pc' = "done"
    /\ UNCHANGED <<im_base, im_response, im_errors>>
    /\ UNCHANGED <<mainVars, healVars, clarVars, ppVars, cmpVars>>

NextImprove ==
    \/ ImImprove
    \/ ImProcess

SpecImprove == InitImprove /\ [][NextImprove]_vars

\* the hunk replaces line k of lines: the removal and the context lines given
\* are the lines at and around k
RefersTo(lines, lead, old, trail, k) ==
    /\ k \in 1..Len(lines) /\ lines[k] = old
    /\ lead # NoLine => (k > 1 /\ lines[k - 1] = lead)
    /\ trail # NoLine => (k < Len(lines) /\ lines[k + 1] = trail)

\* the result is the base with line k of path replaced by new, nothing else
\* of the base changed
ReplacedAt(path, new, k) ==
    /\ DOMAIN im_base \subseteq DOMAIN im_result
    /\ im_result[path] = [im_base[path] EXCEPT ![k] = new]
    /\ \A q \in DOMAIN im_base \ {path} : im_result[q] = im_base[q]

AnchorIsFirst(lines, lead, old, k) ==
    LET a == IF lead = NoLine THEN k ELSE k - 1 IN
    \A i \in 1..(a - 1) : lines[i] # lines[a]

StepsOf(tr) ==
    LET IsStep(e) == e \in {"load_prompt", "archive_logs", "agent_init",
                            "handle_improve_mode", "stage", "push"}
    IN  SelectSeq(tr, IsStep)

AgentStepAt(i) == trace[i] \in {"agent_init", "handle_improve_mode"}

PrepromptNames == {"generate", "improve"}
CustomNames == PrepromptNames \cup {"notes"}

\* file contents: one line, two lines, two lines ended the DOS way, a line
\* ended by a lone carriage return
PpContents ==
    { <<"p">>, <<"p", "\n", "q">>, <<"p", "\r", "\n", "q">>, <<"q", "\r">> }

PpDirs == UNION {[S -> PpContents] : S \in SUBSET CustomNames}

\* the line separators write_text may use: the platform's os.linesep
LineSeps == { <<"\n">>, <<"\r", "\n">> }

\* Path.read_text(): text mode reads \r\n and \r as \n
RECURSIVE ReadText(_)
ReadText(data) ==
    IF data = <<>> THEN <<>>
    ELSE IF Head(data) = "\r"
         THEN IF Len(data) > 1 /\ data[2] = "\n"
              THEN <<"\n">> \o ReadText(SubSeq(data, 3, Len(data)))
              ELSE <<"\n">> \o ReadText(Tail(data))
         ELSE <<Head(data)>> \o ReadText(Tail(data))

\* Path.write_text(): text mode writes \n as the platform's line separator
RECURSIVE WriteText(_, _)
WriteText(text, linesep) ==
    IF text = <<>> THEN <<>>
    ELSE (IF Head(text) = "\n" THEN linesep ELSE <<Head(text)>>)
         \o WriteText(Tail(text), linesep)

\* whether the loop writes the default file of this name into the directory
NeedsCopy(default, custom, name) == name \in DOMAIN default /\ name \notin DOMAIN custom

\* the directory after the loop over the default files
CopyMissing(default, custom, linesep) ==
    [name \in DOMAIN custom \cup DOMAIN default |->
        IF NeedsCopy(default, custom, name)
        THEN WriteText(ReadText(default[name]), linesep)
        ELSE custom[name]]

InitPreprompts ==
    /\ MainIdle /\ HealIdle /\ ClarIdle /\ ImpIdle /\ CmpIdle
    /\ pp_linesep \in LineSeps
    /\ pp_default \in [PrepromptNames -> PpContents]
    /\ pp_exists \in BOOLEAN
    /\ pp_custom \in (IF pp_exists THEN PpDirs ELSE {EmptyFiles})
    /\ pp_exists0 = pp_exists
    /\ pp_custom0 = pp_custom
    /\ pp_flags = <<>>
    /\ pp_returned = None

\* one call of get_preprompts_path
PpCall ==
    /\ Len(pp_flags) < MaxCalls
    /\ \E use_custom_preprompts \in BOOLEAN :
        /\ pp_flags' = Append(pp_flags, use_custom_preprompts)
        /\ IF ~use_custom_preprompts
           THEN /\ pp_returned' = "PREPROMPTS_PATH"
                /\ pp_exists' = pp_exists
                /\ pp_custom' = pp_custom
           ELSE /\ pp_returned' = "input_path/preprompts"
                /\ pp_exists' = TRUE
                /\ pp_custom' = CopyMissing(pp_default, pp_custom, pp_linesep)
    /\ pp_exists0' = pp_exists
    /\ pp_custom0' = pp_custom
    /\ UNCHANGED <<pp_linesep, pp_default>>
    /\ UNCHANGED <<mainVars, healVars, clarVars, impVars, cmpVars>>

NextPreprompts == PpCall

SpecPreprompts == InitPreprompts /\ [][NextPreprompts]_vars

LastFlag == pp_flags[Len(pp_flags)]

\* what every call leaves, whatever the flag: the path returned, the files that
\* were in <project>/preprompts kept as they were, no change at all without the
\* flag or right after a call with it
PpFrame ==
    /\ ~LastFlag =>
        /\ pp_returned = "PREPROMPTS_PATH"
        /\ pp_exists = pp_exists0 /\ pp_custom = pp_custom0
    /\ LastFlag =>
        /\ pp_returned = "input_path/preprompts"
        /\ pp_exists
        /\ DOMAIN pp_custom = DOMAIN pp_custom0 \cup PrepromptNames
        /\ \A name \in DOMAIN pp_custom0 : pp_custom[name] = pp_custom0[name]
    /\ (Len(pp_flags) > 1 /\ pp_flags[Len(pp_flags) - 1]) =>
        (pp_exists = pp_exists0 /\ pp_custom = pp_custom0)

\* C11 as stated: without the flag the default path is returned and the disk is
\* unchanged; with it <project>/preprompts is returned, holds every default
\* file name, each file that was missing being a copy of the default and each
\* file that was there keeping its content; a second call changes nothing.
C11_CopiesAreExact ==
    pp_flags # <<>> =>
        /\ PpFrame
        /\ LastFlag =>
            \A name \in PrepromptNames \ DOMAIN pp_custom0 :
                pp_custom[name] = pp_default[name]

\* What the code does leave (C11): the same, each file that was missing holding
\* the text of the default as text mode reads it: the same lines, with the line
\* endings rewritten as the platform's separator.
C11_CopiesHaveTheText ==
    pp_flags # <<>> =>
        /\ PpFrame
        /\ LastFlag =>
            \A name \in PrepromptNames \ DOMAIN pp_custom0 :
                /\ ReadText(pp_custom[name]) = ReadText(pp_default[name])
                /\ \A i \in DOMAIN pp_custom[name] :
                    pp_custom[name][i] = "\r" =>
                        (pp_linesep = <<"\r", "\n">> /\ i < Len(pp_custom[name])
                         /\ pp_custom[name][i + 1] = "\n")
                /\ (pp_linesep = <<"\r", "\n">>) =>
                    \A i \in DOMAIN pp_custom[name] :
                        pp_custom[name][i] = "\n" => (i > 1 /\ pp_custom[name][i - 1] = "\r")

\* a second call with the flag, after a first one copied a file with DOS line
\* endings and kept a file that was there
C11_SecondCall ==
    /\ pp_flags = <<TRUE, TRUE>>
    /\ pp_linesep = <<"\n">>
    /\ pp_default["generate"] = <<"p", "\r", "\n", "q">>
    /\ pp_custom["generate"] = <<"p", "\n", "q">>
    /\ pp_custom["improve"] = <<"q", "\r">> /\ pp_default["improve"] = <<"p">>
    /\ "notes" \in DOMAIN pp_custom

(***************************************************************************)
(* compare(f1, f2).  Paths, contents and lines are sequences of            *)
(* characters; indices of lines are Python's, from 0.                      *)
(***************************************************************************)
\* the code point of a character of a path
Ord(c) ==
    CASE c = "." -> 46 [] c = "/" -> 47 [] c = "B" -> 66
      [] c = "a" -> 97 [] c = "b" -> 98

\* p < q on Python strings
RECURSIVE StrLess(_, _)
StrLess(p, q) ==
    IF q = <<>> THEN FALSE
    ELSE IF p = <<>> THEN TRUE
    ELSE IF Head(p) # Head(q) THEN Ord(Head(p)) < Ord(Head(q))
    ELSE StrLess(Tail(p), Tail(q))

\* sorted(S) for a set of strings
RECURSIVE Sorted(_)
Sorted(S) ==
    IF S = {} THEN <<>>
    ELSE LET least == CHOOSE p \in S : \A q \in S \ {p} : StrLess(p, q)
         IN  <<least>> \o Sorted(S \ {least})

\* str.splitlines(): lines end at \n, \r\n or \r, and the end of the text ends
\* a line that is not empty
RECURSIVE SplitFrom(_, _)
SplitFrom(text, line) ==
    IF text = <<>> THEN (IF line = <<>> THEN <<>> ELSE <<line>>)
    ELSE IF Head(text) = "\n" THEN <<line>> \o SplitFrom(Tail(text), <<>>)
    ELSE IF Head(text) = "\r"
         THEN IF Len(text) > 1 /\ text[2] = "\n"
              THEN <<line>> \o SplitFrom(SubSeq(text, 3, Len(text)), <<>>)
              ELSE <<line>> \o SplitFrom(Tail(text), <<>>)
    ELSE SplitFrom(Tail(text), Append(line, Head(text)))

SplitLines(text) == SplitFrom(text, <<>>)

\* a[lo:hi]
Slice(a, lo, hi) == SubSeq(a, lo + 1, hi)

Max(a, b) == IF a > b THEN a ELSE b

\* SequenceMatcher.find_longest_match without junk: the longest block
\* a[i:i+k] = b[j:j+k] within the ranges, of those the one starting earliest
\* in a, of those the one starting earliest in b
FindLongestMatch(a, b, alo, ahi, blo, bhi) ==
    LET Cands == {c \in (alo..(ahi - 1)) \X (blo..(bhi - 1)) \X (1..Min(ahi - alo, bhi - blo)) :
                    /\ c[1] + c[3] <= ahi
                    /\ c[2] + c[3] <= bhi
                    /\ Slice(a, c[1], c[1] + c[3]) = Slice(b, c[2], c[2] + c[3])}
    IN  IF Cands = {} THEN <<alo, blo, 0>>
        ELSE CHOOSE c \in Cands : \A d \in Cands :
                \/ c[3] > d[3]
                \/ c[3] = d[3] /\ c[1] < d[1]
                \/ c[3] = d[3] /\ c[1] = d[1] /\ c[2] <= d[2]

\* the blocks get_matching_blocks finds, in order: the longest match, then
\* the same to its left and to its right
RECURSIVE MatchIn(_, _, _, _, _, _)
MatchIn(a, b, alo, ahi, blo, bhi) ==
    LET m == FindLongestMatch(a, b, alo, ahi, blo, bhi)
        i == m[1]
        j == m[2]
        k == m[3]
    IN  IF k = 0 THEN <<>>
        ELSE (IF alo < i /\ blo < j THEN MatchIn(a, b, alo, i, blo, j) ELSE <<>>)
             \o <<m>>
             \o (IF i + k < ahi /\ j + k < bhi THEN MatchIn(a, b, i + k, ahi, j + k, bhi) ELSE <<>>)

\* adjacent blocks are merged into one
RECURSIVE Collapse(_)
Collapse(blocks) ==
    IF Len(blocks) < 2 THEN blocks
    ELSE LET m == blocks[1]
             n == blocks[2]
         IN  IF m[1] + m[3] = n[1] /\ m[2] + m[3] = n[2]
             THEN Collapse(<<<<m[1], m[2], m[3] + n[3]>>>> \o Tail(Tail(blocks)))
             ELSE <<m>> \o Collapse(Tail(blocks))

\* get_matching_blocks(): ends with the block of size 0 at the ends
MatchingBlocks(a, b) ==
    Append(Collapse(MatchIn(a, b, 0, Len(a), 0, Len(b))), <<Len(a), Len(b), 0>>)

\* get_opcodes(): what turns a into b between and on the matching blocks
RECURSIVE OpcodesFrom(_, _, _)
OpcodesFrom(blocks, i, j) ==
    IF blocks = <<>> THEN <<>>
    ELSE LET ai == Head(blocks)[1]
             bj == Head(blocks)[2]
             size == Head(blocks)[3]
             tag == IF i < ai /\ j < bj THEN "replace"
                    ELSE IF i < ai THEN "delete"
                    ELSE IF j < bj THEN "insert"
                    ELSE ""
         IN  (IF tag # "" THEN <<<<tag, i, ai, j, bj>>>> ELSE <<>>)
             \o (IF size > 0 THEN <<<<"equal", ai, ai + size, bj, bj + size>>>> ELSE <<>>)
             \o OpcodesFrom(Tail(blocks), ai + size, bj + size)

Opcodes(a, b) == OpcodesFrom(MatchingBlocks(a, b), 0, 0)

\* unified_diff's default number of context lines
Context == 3

\* get_grouped_opcodes: equal runs at both ends cut to the context
TrimEnds(codes, n) ==
    LET first == codes[1]
        c1 == IF first[1] = "equal"
              THEN [codes EXCEPT ![1] = <<"equal", Max(first[2], first[3] - n), first[3],
                                           Max(first[4], first[5] - n), first[5]>>]
              ELSE codes
        last == c1[Len(c1)]
    IN  IF last[1] = "equal"
        THEN [c1 EXCEPT ![Len(c1)] = <<"equal", last[2], Min(last[3], last[2] + n),
                                        last[4], Min(last[5], last[4] + n)>>]
        ELSE c1

\* get_grouped_opcodes: the loop, which ends a group inside an equal run
\* longer than twice the context
RECURSIVE GroupFrom(_, _, _)
GroupFrom(codes, group, n) ==
    IF codes = <<>>
    THEN IF group # <<>> /\ ~(Len(group) = 1 /\ group[1][1] = "equal")
         THEN <<group>> ELSE <<>>
    ELSE LET c == Head(codes)
         IN  IF c[1] = "equal" /\ c[3] - c[2] > n + n
             THEN <<Append(group, <<"equal", c[2], Min(c[3], c[2] + n), c[4], Min(c[5], c[4] + n)>>)>>
                  \o GroupFrom(Tail(codes),
                               <<<<"equal", Max(c[2], c[3] - n), c[3], Max(c[4], c[5] - n), c[5]>>>>, n)
             ELSE GroupFrom(Tail(codes), Append(group, c), n)

GroupedOpcodes(a, b, n) ==
    LET codes == Opcodes(a, b)
    IN  GroupFrom(TrimEnds(IF codes = <<>> THEN <<<<"equal", 0, 1, 0, 1>>>> ELSE codes, n),
                  <<>>, n)

\* '{}'.format(n) for a natural number
RECURSIVE Str(_)
Str(n) ==
    LET digit(d) == <<"0", "1", "2", "3", "4", "5", "6", "7", "8", "9">>[d + 1]
    IN  IF n < 10 THEN <<digit(n)>> ELSE Str(n \div 10) \o <<digit(n % 10)>>

\* difflib._format_range_unified(start, stop)
FormatRangeUnified(start, stop) ==
    LET length == stop - start
    IN  IF length = 1 THEN Str(start + 1)
        ELSE Str(IF length = 0 THEN start ELSE start + 1) \o <<",">> \o Str(length)

\* the lines unified_diff yields for one opcode
RECURSIVE Prefixed(_, _)
Prefixed(prefix, lines) ==
    IF lines = <<>> THEN <<>>
    ELSE <<<<prefix>> \o Head(lines)>> \o Prefixed(prefix, Tail(lines))

OpcodeLines(a, b, code) ==
    IF code[1] = "equal" THEN Prefixed(" ", Slice(a, code[2], code[3]))
    ELSE (IF code[1] \in {"replace", "delete"}
          THEN Prefixed("-", Slice(a, code[2], code[3])) ELSE <<>>)
         \o (IF code[1] \in {"replace", "insert"}
             THEN Prefixed("+", Slice(b, code[4], code[5])) ELSE <<>>)

RECURSIVE GroupBody(_, _, _)
GroupBody(a, b, group) ==
    IF group = <<>> THEN <<>>
    ELSE OpcodeLines(a, b, Head(group)) \o GroupBody(a, b, Tail(group))

\* the lines unified_diff yields for one group: the @@ line and the body
GroupLines(a, b, group) ==
    LET first == group[1]
        last == group[Len(group)]
    IN  << <<"@", "@", " ", "-">> \o FormatRangeUnified(first[2], last[3])
           \o <<" ", "+">> \o FormatRangeUnified(first[4], last[5])
           \o <<" ", "@", "@">> >>
        \o GroupBody(a, b, group)

RECURSIVE GroupsLines(_, _, _)
GroupsLines(a, b, groups) ==
    IF groups = <<>> THEN <<>>
    ELSE GroupLines(a, b, Head(groups)) \o GroupsLines(a, b, Tail(groups))

\* difflib.unified_diff(lines1, lines2, lineterm=""): the two file lines, with
\* empty file names, before the first group
UnifiedDiff(a, b) ==
    LET groups == GroupedOpcodes(a, b, Context)
    IN  IF groups = <<>> THEN <<>>
        ELSE << <<"-", "-", "-", " ">>, <<"+", "+", "+", " ">> >> \o GroupsLines(a, b, groups)

\* the escape sequences of colored_diff, each one element of the text
RED == "\\033[38;5;202m"
GREEN == "\\033[92m"
RESET == "\\033[0m"

ColoredLine(line) ==
    IF Head(line) = "+" THEN <<GREEN>> \o line \o <<RESET>>
    ELSE IF Head(line) = "-" THEN <<RED>> \o line \o <<RESET>>
    ELSE line

\* "\n".join(lines)
RECURSIVE Join(_)
Join(lines) ==
    IF lines = <<>> THEN <<>>
    ELSE IF Len(lines) = 1 THEN Head(lines)
    ELSE Head(lines) \o <<"\n">> \o Join(Tail(lines))

ColoredDiff(s1, s2) ==
    LET diff == UnifiedDiff(SplitLines(s1), SplitLines(s2))
    IN  Join([i \in DOMAIN diff |-> ColoredLine(diff[i])])

\* f.get(file, "")
Get(f, file) == IF file \in DOMAIN f THEN f[file] ELSE <<>>

\* set(f1) | set(f2)
FilePathsOfFirst(f1, f2) == DOMAIN f1
FilePaths(f1, f2) == DOMAIN f1 \cup DOMAIN f2

ChangesTo == <<"C", "h", "a", "n", "g", "e", "s", " ", "t", "o", " ">>

\* what compare prints: two print() calls for each file
RECURSIVE Printed(_, _, _)
Printed(files, f1, f2) ==
    IF files = <<>> THEN <<>>
    ELSE << ChangesTo \o Head(files) \o <<":">>,
            ColoredDiff(Get(f1, Head(files)), Get(f2, Head(files))) >>
         \o Printed(Tail(files), f1, f2)

\* the paths and contents compare is called with: a capital before the small
\* letters, a path that begins another; no line, one line, DOS line ends, a
\* long run of equal lines
ComparePaths == { <<"B">>, <<"a">>, <<"a", "/", "b">> }

SevenLines == Join([i \in 1..7 |-> <<"x">>])

CompareContents ==
    { <<>>,
      <<"x">>,
      <<"y", "\r", "\n", "x">>,
      SevenLines \o <<"\n">>,
      <<"y", "\n">> \o SevenLines \o <<"\n", "y">>,
      <<"x", "\n", "x", "\n", "x", "\n", "x", "\n", "y">> }

CompareFileSets == UNION {[S -> CompareContents] : S \in SUBSET ComparePaths}

InitCompare ==
    /\ MainIdle /\ HealIdle /\ ClarIdle /\ ImpIdle /\ PpIdle
    /\ cmp_pc = "called"
    /\ cmp_f1 \in CompareFileSets
    /\ cmp_f2 \in CompareFileSets
    /\ cmp_out = <<>>

\* compare(f1, f2), to its end
CmpCompare ==
    /\ cmp_pc = "called"
    /\ cmp_out' = Printed(Sorted(FilePaths(cmp_f1, cmp_f2)), cmp_f1, cmp_f2)
    /\ cmp_pc' = "done"
    /\ UNCHANGED <<cmp_f1, cmp_f2>>
    /\ UNCHANGED <<mainVars, healVars, clarVars, impVars, ppVars>>

NextCompare == CmpCompare

SpecCompare == InitCompare /\ [][NextCompare]_vars

(***************************************************************************)
(* Reading what compare printed.                                           *)
(***************************************************************************)
\* text.split(sep)
RECURSIVE SplitOnFrom(_, _, _)
SplitOnFrom(text, sep, piece) ==
    IF text = <<>> THEN <<piece>>
    ELSE IF Head(text) = sep THEN <<piece>> \o SplitOnFrom(Tail(text), sep, <<>>)
    ELSE SplitOnFrom(Tail(text), sep, Append(piece, Head(text)))

SplitOn(text, sep) == SplitOnFrom(text, sep, <<>>)

\* the lines of a printed diff, and a line without its colour
PrintedLines(text) == IF text = <<>> THEN <<>> ELSE SplitOn(text, "\n")

Plain(line) ==
    IF line # <<>> /\ Head(line) \in {RED, GREEN} THEN SubSeq(line, 2, Len(line) - 1) ELSE line

RECURSIVE ParseNat(_)
ParseNat(digits) ==
    IF digits = <<>> THEN 0
    ELSE ParseNat(SubSeq(digits, 1, Len(digits) - 1)) * 10
         + (CHOOSE d \in 0..9 : Str(d) = <<digits[Len(digits)]>>)

\* the range of an @@ line: the index of its first line, from 0, and its length
HunkRange(token) ==
    LET parts == SplitOn(Tail(token), ",")
        start == ParseNat(parts[1])
        length == IF Len(parts) = 2 THEN ParseNat(parts[2]) ELSE 1
    IN  <<IF length = 0 THEN start ELSE start - 1, length>>

\* no list of lines holds a line with a line end in it
PatchFailed == << <<"\n">> >>

\* the lines a unified diff makes of the lines old: pos lines of old are read,
\* new is what is written, oleft and nleft lines of the hunk are still to come
RECURSIVE Patch(_, _, _, _, _, _)
Patch(diff, old, pos, new, oleft, nleft) ==
    IF diff = <<>>
    THEN IF oleft = 0 /\ nleft = 0 THEN new \o Slice(old, pos, Len(old)) ELSE PatchFailed
    ELSE LET line == Head(diff)
             text == Tail(line)
         IN  IF Head(line) = "@"
             THEN LET tokens == SplitOn(line, " ")
                      o == HunkRange(tokens[2])
                      n == HunkRange(tokens[3])
                      copied == new \o Slice(old, pos, o[1])
                  IN  IF oleft = 0 /\ nleft = 0 /\ pos <= o[1] /\ o[1] + o[2] <= Len(old)
                         /\ Len(copied) = n[1]
                      THEN Patch(Tail(diff), old, o[1], copied, o[2], n[2])
                      ELSE PatchFailed
             ELSE IF Head(line) = "+"
             THEN IF nleft > 0
                  THEN Patch(Tail(diff), old, pos, Append(new, text), oleft, nleft - 1)
                  ELSE PatchFailed
             ELSE IF Head(line) = "-"
             THEN IF oleft > 0 /\ old[pos + 1] = text
                  THEN Patch(Tail(diff), old, pos + 1, new, oleft - 1, nleft)
                  ELSE PatchFailed
             ELSE IF Head(line) = " " /\ oleft > 0 /\ nleft > 0 /\ old[pos + 1] = text
                  THEN Patch(Tail(diff), old, pos + 1, Append(new, text), oleft - 1, nleft - 1)
                  ELSE PatchFailed

\* the i-th file compare printed: its path, and the lines of its diff
PrintedPath(i) == SubSeq(cmp_out[2 * i - 1], Len(ChangesTo) + 1, Len(cmp_out[2 * i - 1]) - 1)
PrintedDiff(i) == PrintedLines(cmp_out[2 * i])

\* the diff is a unified diff of old and new, coloured line by line
IsColoredUnifiedDiff(diff, old, new) ==
    /\ old = new => diff = <<>>
    /\ old # new =>
        /\ Len(diff) > 3
        /\ diff[1] = <<RED, "-", "-", "-", " ", RESET>>
        /\ diff[2] = <<GREEN, "+", "+", "+", " ", RESET>>
        /\ Head(diff[3]) = "@"
        /\ \A k \in 3..Len(diff) :
            /\ Head(diff[k]) \in {RED, GREEN, " ", "@"}
            /\ Head(diff[k]) = RED => diff[k][2] = "-" /\ diff[k][Len(diff[k])] = RESET
            /\ Head(diff[k]) = GREEN => diff[k][2] = "+" /\ diff[k][Len(diff[k])] = RESET
        /\ Patch([k \in 1..(Len(diff) - 2) |-> Plain(diff[k + 2])], old, 0, <<>>, 0, 0) = new

\* every line of lines, and nothing else, is in the diff with this sign
AllLinesAs(diff, lines, colour, sign) ==
    /\ Len(diff) = (IF lines = <<>> THEN 0 ELSE Len(lines) + 3)
    /\ \A k \in DOMAIN lines : diff[k + 3] = <<colour, sign>> \o lines[k] \o <<RESET>>

\* C12: compare prints each path of the union of the paths of f1 and f2 once,
\* in sorted order, each with a line-based unified diff of its two contents:
\* all lines removed for a path of f1 alone, all lines added for a path of f2
\* alone, no line at all when the two contents are equal.
C12_CompareReportsUnion ==
    cmp_pc = "done" =>
        LET n == Cardinality(DOMAIN cmp_f1 \cup DOMAIN cmp_f2)
        IN  /\ Len(cmp_out) = 2 * n
            /\ {PrintedPath(i) : i \in 1..n} = DOMAIN cmp_f1 \cup DOMAIN cmp_f2
            /\ \A i \in 1..(n - 1) : StrLess(PrintedPath(i), PrintedPath(i + 1))
            /\ \A i \in 1..n :
                LET file == PrintedPath(i)
                    lines1 == IF file \in DOMAIN cmp_f1 THEN SplitLines(cmp_f1[file]) ELSE <<>>
                    lines2 == IF file \in DOMAIN cmp_f2 THEN SplitLines(cmp_f2[file]) ELSE <<>>
                IN  /\ cmp_out[2 * i - 1] = ChangesTo \o file \o <<":">>
                    /\ IsColoredUnifiedDiff(PrintedDiff(i), lines1, lines2)
                    /\ file \notin DOMAIN cmp_f2 => AllLinesAs(PrintedDiff(i), lines1, RED, "-")
                    /\ file \notin DOMAIN cmp_f1 => AllLinesAs(PrintedDiff(i), lines2, GREEN, "+")
                    /\ (file \in DOMAIN cmp_f1 /\ file \in DOMAIN cmp_f2
                        /\ cmp_f1[file] = cmp_f2[file]) => cmp_out[2 * i] = <<>>

\* a file of f1 alone, a file with the same lines in both, a file of f2 alone
C12_Witness ==
    /\ cmp_pc = "done"
    /\ DOMAIN cmp_f1 = { <<"B">>, <<"a">> }
    /\ DOMAIN cmp_f2 = { <<"a">>, <<"a", "/", "b">> }
    /\ cmp_f1[<<"a">>] = cmp_f2[<<"a">>] /\ cmp_f1[<<"a">>] # <<>>
    /\ Len(PrintedDiff(1)) > 3
    /\ PrintedDiff(2) = <<>>
    /\ Len(PrintedDiff(3)) > 3

=============================================================================
